---------------------------- MODULE Spec2Model ----------------------------
(***************************************************************************)
(* Model of lib/loadtest.js: exports.loadTest, the Operation that owns the *)
(* clients and the stop conditions, and the HttpClient request cycle.      *)
(*                                                                         *)
(* Node runs every handler to completion, so each handler (with every call *)
(* it makes) is one action.  The handlers are written as operators on a    *)
(* record of the Operation's state, composed in the order the code calls   *)
(* them; an action applies one handler to the current state.               *)
(*                                                                         *)
(* timing.js (Latency, HighResolutionTimer) and websocket.js are required  *)
(* by loadtest.js but are not among the sources: the latency tracker and   *)
(* the interval timer follow the specification's contract, and a           *)
(* WebSocketClient is created and started but its request cycle is not     *)
(* modelled.  The option indexParam is taken as unset.                     *)
(***************************************************************************)
EXTENDS Integers, Sequences, FiniteSets, Bags, TLC

\* Bounds of the model.
MaxConcurrency == 2
MaxRequests == 2
MaxStarted == 3
MaxTicks == 2

VARIABLES
    phase,            \* "init" before exports.loadTest is called, then "rejected" or "started"
    options,          \* the options object given to loadTest
    callback,         \* whether a result callback was given to loadTest
    constructor,      \* the client constructor chosen from the url
    running,          \* Operation.running
    requests,         \* Operation's completed counter
    latency,          \* Operation.latency, the latency tracker
    clients,          \* Operation's clients, by index: their timers
    conns,            \* the HTTP requests whose events are not over, by latency id
    maxSecondsTimer,  \* the setTimeout(stop, maxSeconds * 1000)
    showTimer,        \* the partial-report timer
    results,          \* the final statistics delivered to the result callback, in order
    stopOrder,        \* what the last call of stop() did, in the order of its statements
    okCount           \* how many requests the server has answered with a status below 300

vars == <<phase, options, callback, constructor, running, requests, latency,
          clients, conns, maxSecondsTimer, showTimer, results, stopOrder, okCount>>

-----------------------------------------------------------------------------
\* Values

\* JavaScript values that reach the finisher as error code: null/undefined/false,
\* a string, or a number.
NullCode == [kind |-> "null", str |-> "", num |-> 0]
Str(s) == [kind |-> "string", str |-> s, num |-> 0]
Num(n) == [kind |-> "number", str |-> "", num |-> n]

\* JavaScript truthiness of such a value.
Truthy(v) ==
    \/ v.kind = "string" /\ v.str # ""
    \/ v.kind = "number" /\ v.num # 0

\* The urls tried: none, ws://h, http://h, and three that start with neither
\* 'ws://' nor 'http': ftp://h, wss://h and htt://h.
NoUrl == <<>>
WsUrl == <<"w", "s", ":", "/", "/", "h">>
HttpUrl == <<"h", "t", "t", "p", ":", "/", "/", "h">>
FtpUrl == <<"f", "t", "p", ":", "/", "/", "h">>
WssUrl == <<"w", "s", "s", ":", "/", "/", "h">>
HttUrl == <<"h", "t", "t", ":", "/", "/", "h">>
Urls == {NoUrl, WsUrl, HttpUrl, FtpUrl, WssUrl, HttUrl}

\* The response statuses the server answers with.
StatusCodes == {200, 300}

\* String.prototype.startsWith (prototypes.js)
StartsWith(s, prefix) ==
    /\ Len(s) >= Len(prefix)
    /\ SubSeq(s, 1, Len(prefix)) = prefix

-----------------------------------------------------------------------------
\* The latency tracker (timing.js, by its contract): the last id given, the
\* ids whose records are not finalized, and the aggregate of the finalized
\* ones: their number and the bag of their error codes.

NewLatency == [lastId |-> 0, open |-> {}, total |-> 0, errorCodes |-> EmptyBag]

\* latency.start: a new record under the next id.
LatencyStart(l) ==
    [l EXCEPT !.lastId = @ + 1, !.open = @ \cup {l.lastId + 1}]

\* latency.end: finalizes an open record; an unknown or finalized id is
\* rejected and counts nothing.
LatencyEnd(l, id, errorCode) ==
    IF id \in l.open
    THEN [l EXCEPT !.open = @ \ {id},
                   !.total = @ + 1,
                   !.errorCodes = IF errorCode = NullCode
                                  THEN @
                                  ELSE @ (+) SetToBag({errorCode})]
    ELSE l

Errors(l) == BagCardinality(l.errorCodes)

\* latency.showPartial: prints a snapshot, and leaves the records as they are.
LatencyShowPartial(l) == l

\* latency.getResults
GetResults(l) == [total |-> l.total, errors |-> Errors(l)]

-----------------------------------------------------------------------------
\* The handlers, as functions of the Operation's state

State ==
    [options |-> options, callback |-> callback, constructor |-> constructor,
     running |-> running, requests |-> requests, latency |-> latency,
     clients |-> clients, conns |-> conns, maxSecondsTimer |-> maxSecondsTimer,
     showTimer |-> showTimer, results |-> results, stopOrder |-> stopOrder]

SetState(s) ==
    /\ options' = s.options
    /\ callback' = s.callback
    /\ constructor' = s.constructor
    /\ running' = s.running
    /\ requests' = s.requests
    /\ latency' = s.latency
    /\ clients' = s.clients
    /\ conns' = s.conns
    /\ maxSecondsTimer' = s.maxSecondsTimer
    /\ showTimer' = s.showTimer
    /\ results' = s.results
    /\ stopOrder' = s.stopOrder

\* HighResolutionTimer.stop
TimerStop(t) == "stopped"

\* HttpClient.stop
ClientStop(client) ==
    IF client.requestTimer # "none"
    THEN [client EXCEPT !.requestTimer = TimerStop(@)]
    ELSE client

\* stop() that flips the flag instead of clearing it
StopToggle(s) ==
    LET s1 == IF s.showTimer # "none"
              THEN [s EXCEPT !.showTimer = TimerStop(@), !.stopOrder = <<"showTimer">>]
              ELSE [s EXCEPT !.stopOrder = <<>>]
        s2 == [s1 EXCEPT !.running = ~@, !.stopOrder = Append(@, "running")]
        s3 == IF DOMAIN s2.clients # {}
              THEN [s2 EXCEPT !.clients = [index \in DOMAIN @ |-> ClientStop(@[index])],
                              !.stopOrder = Append(@, "clients")]
              ELSE s2
    IN  IF s3.callback
        THEN [s3 EXCEPT !.results = Append(@, GetResults(s3.latency)),
                        !.stopOrder = Append(@, "callback")]
        ELSE s3

\* stop() that leaves the partial-report timer alone
StopLeavesShowTimer(s) ==
    LET s1 == [s EXCEPT !.stopOrder = <<>>]
        s2 == [s1 EXCEPT !.running = FALSE, !.stopOrder = Append(@, "running")]
        s3 == IF DOMAIN s2.clients # {}
              THEN [s2 EXCEPT !.clients = [index \in DOMAIN @ |-> ClientStop(@[index])],
                              !.stopOrder = Append(@, "clients")]
              ELSE s2
    IN  IF s3.callback
        THEN [s3 EXCEPT !.results = Append(@, GetResults(s3.latency)),
                        !.stopOrder = Append(@, "callback")]
        ELSE s3

\* stop() that clears the flag before it stops the partial-report timer
StopRunningFirst(s) ==
    LET s1 == [s EXCEPT !.running = FALSE, !.stopOrder = <<"running">>]
        s2 == IF s1.showTimer # "none"
              THEN [s1 EXCEPT !.showTimer = TimerStop(@),
                              !.stopOrder = Append(@, "showTimer")]
              ELSE s1
        s3 == IF DOMAIN s2.clients # {}
              THEN [s2 EXCEPT !.clients = [index \in DOMAIN @ |-> ClientStop(@[index])],
                              !.stopOrder = Append(@, "clients")]
              ELSE s2
    IN  IF s3.callback
        THEN [s3 EXCEPT !.results = Append(@, GetResults(s3.latency)),
                        !.stopOrder = Append(@, "callback")]
        ELSE s3

\* Operation's stop(): it stops the showTimer, clears running, stops every
\* client and calls the result callback, in this order
Stop(s) ==
    LET s1 == IF s.showTimer # "none"
              THEN [s EXCEPT !.showTimer = TimerStop(@), !.stopOrder = <<"showTimer">>]
              ELSE [s EXCEPT !.stopOrder = <<>>]
        s2 == [s1 EXCEPT !.running = FALSE, !.stopOrder = Append(@, "running")]
        s3 == IF DOMAIN s2.clients # {}
              THEN [s2 EXCEPT !.clients = [index \in DOMAIN @ |-> ClientStop(@[index])],
                              !.stopOrder = Append(@, "clients")]
              ELSE s2
    IN  IF s3.callback
        THEN [s3 EXCEPT !.results = Append(@, GetResults(s3.latency)),
                        !.stopOrder = Append(@, "callback")]
        ELSE s3

\* makeRequest without its check of operation.running
MakeRequestUnguarded(s, c) ==
    LET id == s.latency.lastId + 1
    IN  [s EXCEPT !.latency = LatencyStart(@),
                  !.conns = [i \in DOMAIN @ \cup {id} |->
                               IF i = id
                               THEN [client |-> c, state |-> "sent"]
                               ELSE @[i]]]

\* HttpClient.makeRequest, of the client at index c
MakeRequest(s, c) ==
    IF ~s.running
    THEN s
    ELSE LET id == s.latency.lastId + 1
         IN  [s EXCEPT !.latency = LatencyStart(@),
                       !.conns = [i \in DOMAIN @ \cup {id} |->
                                    IF i = id
                                    THEN [client |-> c, state |-> "sent"]
                                    ELSE @[i]]]

\* Operation.callback that compares the counter before it adds to it
OperationCallbackLate(s, c, next) ==
    LET s1 == IF s.options.maxRequests # 0 /\ s.requests = s.options.maxRequests
              THEN Stop(s)
              ELSE s
        s2 == [s1 EXCEPT !.requests = @ + 1]
    IN  IF s2.running /\ next
        THEN MakeRequest(s2, c)
        ELSE s2

\* Operation.callback that stops past the boundary instead of at it
OperationCallbackGreater(s, c, next) ==
    LET s1 == [s EXCEPT !.requests = @ + 1]
        s2 == IF s1.options.maxRequests # 0 /\ s1.requests > s1.options.maxRequests
              THEN Stop(s1)
              ELSE s1
    IN  IF s2.running /\ next
        THEN MakeRequest(s2, c)
        ELSE s2

\* Operation.callback that calls next before it looks at maxRequests
OperationCallbackNextFirst(s, c, next) ==
    LET s1 == [s EXCEPT !.requests = @ + 1]
        s2 == IF s1.running /\ next
              THEN MakeRequest(s1, c)
              ELSE s1
    IN  IF s2.options.maxRequests # 0 /\ s2.requests = s2.options.maxRequests
        THEN Stop(s2)
        ELSE s2

\* Operation.callback that stops at the boundary and at every request past it
OperationCallbackAtLeast(s, c, next) ==
    LET s1 == [s EXCEPT !.requests = @ + 1]
        s2 == IF s1.options.maxRequests # 0 /\ s1.requests >= s1.options.maxRequests
              THEN Stop(s1)
              ELSE s1
    IN  IF s2.running /\ next
        THEN MakeRequest(s2, c)
        ELSE s2

\* Operation.callback; next is whether the client passed its makeRequest
OperationCallback(s, c, next) ==
    LET s1 == [s EXCEPT !.requests = @ + 1]
        s2 == IF s1.options.maxRequests # 0 /\ s1.requests = s1.options.maxRequests
              THEN Stop(s1)
              ELSE s1
    IN  IF s2.running /\ next
        THEN MakeRequest(s2, c)
        ELSE s2

\* A finisher that takes the error code from result alone
RequestFinisherNoSentinel(s, id, error, result) ==
    LET errorCode == IF error /\ Truthy(result) THEN result ELSE NullCode
        s1 == [s EXCEPT !.latency = LatencyEnd(@, id, errorCode)]
    IN  OperationCallback(s1, s.conns[id].client, s.options.requestsPerSecond = 0)

\* A finisher that passes makeRequest as next in both modes
RequestFinisherAlwaysNext(s, id, error, result) ==
    LET errorCode == IF error
                     THEN IF Truthy(result) THEN result ELSE Str("-1")
                     ELSE NullCode
        s1 == [s EXCEPT !.latency = LatencyEnd(@, id, errorCode)]
    IN  OperationCallback(s1, s.conns[id].client, TRUE)

\* The function getRequestFinisher(id) returns, called with (error, result);
\* error is whether an error message was passed.
RequestFinisher(s, id, error, result) ==
    LET errorCode == IF error
                     THEN IF Truthy(result) THEN result ELSE Str("-1")
                     ELSE NullCode
        s1 == [s EXCEPT !.latency = LatencyEnd(@, id, errorCode)]
    IN  OperationCallback(s1, s.conns[id].client, s.options.requestsPerSecond = 0)

\* HttpClient.start
ClientStart(s, c) ==
    IF s.options.requestsPerSecond = 0
    THEN MakeRequest(s, c)
    ELSE [s EXCEPT !.clients[c].requestTimer = "active"]

\* A client as its constructor leaves it.
NewClient == [requestTimer |-> "none", startTimeout |-> "none"]

\* client.start of either constructor; a WebSocketClient's is not modelled.
ConstructorStart(s, c) ==
    IF s.constructor = "HttpClient" THEN ClientStart(s, c) ELSE s

\* startClients, from index on
RECURSIVE StartClients(_, _)
StartClients(s, index) ==
    IF index >= s.options.concurrency
    THEN s
    ELSE LET s1 == [s EXCEPT !.clients = [i \in DOMAIN @ \cup {index} |->
                                            IF i = index THEN NewClient ELSE @[i]]]
             s2 == IF s1.options.requestsPerSecond = 0
                   THEN ConstructorStart(s1, index)
                   ELSE [s1 EXCEPT !.clients[index].startTimeout = "pending"]
         IN  StartClients(s2, index + 1)

\* new Operation(options, constructor, callback)
NewOperation(s, ctor) ==
    [s EXCEPT !.constructor = ctor, !.running = TRUE, !.requests = 0]

\* Operation.start that schedules no stop at maxSeconds
OperationStartNoDeadline(s) ==
    LET s1 == [s EXCEPT !.latency = NewLatency]
        s2 == StartClients(s1, 0)
    IN  [s2 EXCEPT !.showTimer = "active"]

\* Operation.start
OperationStart(s) ==
    LET s1 == [s EXCEPT !.latency = NewLatency]
        s2 == StartClients(s1, 0)
        s3 == IF s2.options.maxSeconds # 0
              THEN [s2 EXCEPT !.maxSecondsTimer = "pending"]
              ELSE s2
    IN  [s3 EXCEPT !.showTimer = "active"]

\* loadTest that takes every url that is not a websocket's for an HTTP one
LoadTestFromNoHelp(s) ==
    LET url == s.options.url
        begin(ctor) ==
            LET s1 == [s EXCEPT !.options.concurrency = IF @ = 0 THEN 1 ELSE @]
            IN  [began |-> TRUE, state |-> OperationStart(NewOperation(s1, ctor))]
    IN  IF url = NoUrl
        THEN [began |-> FALSE, state |-> s]
        ELSE IF StartsWith(url, <<"w", "s", ":", "/", "/">>)
        THEN begin("WebSocketClient")
        ELSE begin("HttpClient")

\* exports.loadTest: the state it leaves, and whether the run began
LoadTestFrom(s) ==
    LET url == s.options.url
        begin(ctor) ==
            LET s1 == [s EXCEPT !.options.concurrency = IF @ = 0 THEN 1 ELSE @]
            IN  [began |-> TRUE, state |-> OperationStart(NewOperation(s1, ctor))]
    IN  IF url = NoUrl
        THEN [began |-> FALSE, state |-> s]
        ELSE IF StartsWith(url, <<"w", "s", ":", "/", "/">>)
        THEN begin("WebSocketClient")
        ELSE IF StartsWith(url, <<"h", "t", "t", "p">>)
        THEN begin("HttpClient")
        ELSE [began |-> FALSE, state |-> s]

\* The transport forgets a request whose events are over.
Closed(s, id) == [s EXCEPT !.conns = [i \in DOMAIN @ \ {id} |-> @[i]]]

-----------------------------------------------------------------------------
\* The state before loadTest is called: any options, nothing created.

Init ==
    /\ phase = "init"
    /\ options \in [url : Urls, concurrency : 0 .. MaxConcurrency,
                    maxRequests : 0 .. MaxRequests, maxSeconds : {0, 1},
                    requestsPerSecond : {0, 1}]
    /\ callback \in BOOLEAN
    /\ constructor = "none"
    /\ running = FALSE
    /\ requests = 0
    /\ latency = NewLatency
    /\ clients = [index \in {} |-> NewClient]
    /\ conns = [id \in {} |-> [client |-> 0, state |-> "sent"]]
    /\ maxSecondsTimer = "none"
    /\ showTimer = "none"
    /\ results = <<>>
    /\ stopOrder = <<>>
    /\ okCount = 0

\* exports.loadTest(options, callback)
LoadTest ==
    /\ phase = "init"
    /\ LET r == LoadTestFrom(State)
       IN  /\ phase' = IF r.began THEN "started" ELSE "rejected"
           /\ SetState(r.state)
    /\ UNCHANGED okCount

\* The requests of the run are bounded: an event that makes a client go for
\* its next request waits while MaxStarted requests were made, and a
\* requestTimer makes MaxTicks requests.
CanContinue ==
    \/ ~running
    \/ options.requestsPerSecond # 0
    \/ latency.lastId < MaxStarted

\* The function getConnect returns only registers the handlers of the
\* response, 'error' and 'end', and changes nothing: the response's arrival is
\* part of the event that next reaches a handler of the request.

\* request.on('error'): the socket fails, before the response arrives or while
\* it does.  Node's http client emits 'error' on the request in both cases,
\* and ends a response that was arriving ('aborted', then 'end'): that
\* request's 'end' handler is still to run.
RequestError(id, arriving) ==
    /\ conns[id].state = "sent"
    /\ CanContinue
    /\ LET t == RequestFinisher(State, id, TRUE, NullCode)
       IN  IF arriving
           THEN SetState([t EXCEPT !.conns[id].state = "aborted"])
           ELSE SetState(Closed(t, id))
    /\ UNCHANGED <<phase, okCount>>

\* connection.on('error')
ResponseError(id) ==
    /\ conns[id].state = "sent"
    /\ CanContinue
    /\ LET t == RequestFinisher(State, id, TRUE, Str("1"))
       IN  SetState([t EXCEPT !.conns[id].state = "aborted"])
    /\ UNCHANGED <<phase, okCount>>

\* connection.on('end'), with connection.statusCode: also how a response cut
\* short by an error ends
ResponseEnd(id, statusCode) ==
    /\ conns[id].state \in {"sent", "aborted"}
    /\ CanContinue
    /\ IF statusCode >= 300
       THEN SetState(Closed(RequestFinisher(State, id, TRUE, Num(statusCode)), id))
       ELSE SetState(Closed(RequestFinisher(State, id, FALSE, NullCode), id))
    /\ okCount' = IF statusCode < 300 THEN okCount + 1 ELSE okCount
    /\ UNCHANGED phase

\* setTimeout(client.start, offset) fires
ClientStartTimeout(c) ==
    /\ clients[c].startTimeout = "pending"
    /\ LET s == [State EXCEPT !.clients[c].startTimeout = "fired"]
       IN  SetState(ConstructorStart(s, c))
    /\ UNCHANGED <<phase, okCount>>

\* The client's requestTimer fires: makeRequest
Tick(c) ==
    /\ clients[c].requestTimer = "active"
    /\ ~running \/ latency.lastId < MaxTicks
    /\ SetState(MakeRequest(State, c))
    /\ UNCHANGED <<phase, okCount>>

\* setTimeout(stop, maxSeconds * 1000) fires
MaxSecondsTimeout ==
    /\ maxSecondsTimer = "pending"
    /\ SetState(Stop([State EXCEPT !.maxSecondsTimer = "fired"]))
    /\ UNCHANGED <<phase, okCount>>

\* showTimer fires: latency.showPartial
ShowPartial ==
    /\ showTimer = "active"
    /\ latency' = LatencyShowPartial(latency)
    /\ UNCHANGED <<phase, options, callback, constructor, running, requests,
                   clients, conns, maxSecondsTimer, showTimer, results, stopOrder,
                   okCount>>

Next ==
    \/ LoadTest
    \/ \E id \in DOMAIN conns : \E arriving \in BOOLEAN : RequestError(id, arriving)
    \/ \E id \in DOMAIN conns : ResponseError(id)
    \/ \E id \in DOMAIN conns : \E statusCode \in StatusCodes : ResponseEnd(id, statusCode)
    \/ \E c \in DOMAIN clients : ClientStartTimeout(c)
    \/ \E c \in DOMAIN clients : Tick(c)
    \/ MaxSecondsTimeout
    \/ ShowPartial

Spec == Init /\ [][Next]_vars

\* The runs with a deadline and no maxRequests; the event loop runs a timer
\* that is due.
DeadlineInit ==
    /\ Init
    /\ options.maxSeconds # 0
    /\ options.maxRequests = 0

FairSpec == DeadlineInit /\ [][Next]_vars /\ WF_vars(MaxSecondsTimeout)

TypeOK ==
    /\ phase \in {"init", "rejected", "started"}
    /\ running \in BOOLEAN
    /\ requests \in Nat
    /\ DOMAIN conns \subseteq 1 .. latency.lastId
    /\ latency.open = {id \in DOMAIN conns : conns[id].state = "sent"}
    /\ stopOrder \in Seq({"showTimer", "running", "clients", "callback"})

-----------------------------------------------------------------------------
\* The requests of client c that are in flight: made, and no event of theirs
\* has reached the finisher.
InFlight(c) == {id \in DOMAIN conns : conns[id].client = c /\ conns[id].state = "sent"}

\* The requests that have finished: those made, less those in flight.
Finished == latency.lastId - Cardinality({id \in DOMAIN conns : conns[id].state = "sent"})

\* C1: a run started with a result callback delivers the final statistics to
\* it exactly once: never twice, and once when the Operation has stopped.
C1_DeliveredOnce ==
    callback =>
        /\ Len(results) <= 1
        /\ phase = "started" /\ ~running => Len(results) = 1

\* C2: in a step that leaves the Operation stopped (the step that stops it
\* and every later one) no request is made and no latency record is started.
C2_NoDispatchAfterStop ==
    [][~running' =>
          /\ latency'.lastId = latency.lastId
          /\ DOMAIN conns' \subseteq DOMAIN conns]_vars

\* The Operation has stopped and a client's staggered start has fired since:
\* its requestTimer ticks, and requests are still in flight.
C2_Witness ==
    /\ phase = "started" /\ ~running
    /\ \E c \in DOMAIN clients : clients[c].requestTimer = "active"
    /\ latency.open # {}

\* C3: unless it is the maxSeconds timer that fires, the step in which the
\* Operation stops leaves the completed counter at exactly maxRequests.
C3_StopsAtMaxRequests ==
    [][running /\ ~running' /\ maxSecondsTimer' # "fired" =>
          /\ options.maxRequests # 0
          /\ requests' = options.maxRequests]_vars

\* Two clients, stopped by the second completion with no deadline fired.
C3_Witness ==
    /\ phase = "started" /\ ~running
    /\ maxSecondsTimer # "fired"
    /\ options.concurrency = 2
    /\ options.maxRequests = 2
    /\ requests = 2

\* C4: in closed-loop mode each client has at most one request in flight.
C4_OneInFlight ==
    options.requestsPerSecond = 0 =>
        \A c \in DOMAIN clients : Cardinality(InFlight(c)) <= 1

\* C5: with maxSeconds set and no maxRequests the Operation stops: the
\* deadline timer fires, and the step in which it fires leaves the Operation
\* stopped, whatever is in flight.
C5_DeadlineStops ==
    /\ (phase = "started" /\ options.maxSeconds # 0 /\ options.maxRequests = 0)
           ~> ~running
    /\ [][maxSecondsTimer = "pending" /\ maxSecondsTimer' = "fired" => ~running']_vars

\* The deadline stopped a run none of whose requests had completed.
C5_Witness ==
    /\ phase = "started" /\ ~running
    /\ options.maxRequests = 0
    /\ maxSecondsTimer = "fired"
    /\ requests = 0
    /\ latency.open # {}

\* A first event of request id that is a failure: a request error, a response
\* error, or the end of a response whose status is not below 300.
FailureOf(id) ==
    /\ conns[id].state = "sent"
    /\ okCount' = okCount
    /\ id \notin DOMAIN conns' \/ conns'[id].state = "aborted"

C7_NeverRunsAgain ==
    [][phase = "started" /\ ~running => ~running']_vars

\* Both stop triggers have fired: maxRequests was reached and the deadline
\* passed.
C7_Witness ==
    /\ phase = "started" /\ ~running
    /\ maxSecondsTimer = "fired"
    /\ options.maxRequests # 0
    /\ requests >= options.maxRequests

\* C8: every request that finishes is finalized once: the completed counter
\* is the number of requests that have finished.
C8_FinalizedOnce ==
    requests = Finished

\* The urls that start with neither 'ws://' nor 'http', and no url.
BadUrls ==
    {<<>>,
     <<"f", "t", "p", ":", "/", "/", "h">>,
     <<"w", "s", "s", ":", "/", "/", "h">>,
     <<"h", "t", "t", ":", "/", "/", "h">>}

\* C9: loadTest with no url, or one that starts with neither 'ws://' nor
\* 'http', begins no run: no Operation, client, request or timer exists.
C9_ConfigurationError ==
    /\ phase # "init" => (phase = "rejected" <=> options.url \in BadUrls)
    /\ options.url \in BadUrls =>
          /\ constructor = "none"
          /\ ~running
          /\ DOMAIN clients = {}
          /\ DOMAIN conns = {}
          /\ latency.lastId = 0
          /\ maxSecondsTimer = "none"
          /\ showTimer = "none"
          /\ results = <<>>

\* loadTest has returned from a url that almost starts with 'http'.
C9_Witness ==
    /\ phase = "rejected"
    /\ options.url = <<"h", "t", "t", ":", "/", "/", "h">>

\* C10, as claimed: the completed counter never exceeds maxRequests; stated
\* of the runs in which no request was finalized twice, so that a violation
\* is one of completions of requests that were in flight.
C10_AtMostMaxRequests ==
    options.maxRequests # 0 /\ requests = Finished => requests <= options.maxRequests

\* C10, amended: while the Operation is running the completed counter is
\* below maxRequests; it exceeds maxRequests only once the Operation has
\* stopped, by completions of requests that were in flight.
C10_BelowMaxWhileRunning ==
    options.maxRequests # 0 =>
        /\ running => requests < options.maxRequests
        /\ requests > options.maxRequests => phase = "started" /\ ~running

\* A request that was in flight at the boundary has completed since.
C10_Witness ==
    /\ phase = "started" /\ ~running
    /\ options.maxRequests # 0
    /\ maxSecondsTimer # "fired"
    /\ requests = Finished
    /\ requests > options.maxRequests

\* The requests a step dispatches, and whether a step runs the finisher of id
Dispatched == DOMAIN conns' \ DOMAIN conns
Completes(id) == id \notin DOMAIN conns' \/ conns'[id] # conns[id]

\* C11: a completion of a closed-loop client dispatches the client's next
\* request if and only if the Operation is running once the completion has
\* looked at maxRequests: the completion that brings requests to maxRequests
\* dispatches nothing, a completion after a stop dispatches nothing, every
\* other one dispatches exactly one request of the same client.
C11_ContinuesIffRunning ==
    [][\A id \in DOMAIN conns :
           (constructor = "HttpClient" /\ options.requestsPerSecond = 0 /\ Completes(id)) =>
               /\ requests' = requests + 1
               /\ running' <=> (\E new \in Dispatched : conns'[new].client = conns[id].client)
               /\ Cardinality(Dispatched) <= 1
               /\ (options.maxRequests # 0 /\ requests' = options.maxRequests) => Dispatched = {}
               /\ ~running => Dispatched = {}
               /\ (running /\ requests' # options.maxRequests) => Dispatched # {}]_vars

\* A closed-loop client finished a request while running and its next one is out
C11_Witness ==
    /\ phase = "started" /\ running
    /\ options.requestsPerSecond = 0 /\ options.concurrency = 1
    /\ requests = 1 /\ latency.lastId = 2
    /\ InFlight(0) = {2}

\* C12: in open-loop mode a completion dispatches nothing; a request is
\* dispatched only by a step that completes nothing and belongs to a client
\* whose own requestTimer is active, one request per tick; so a client can
\* have several requests in flight.
C12_OnlyTicksDispatch ==
    [][(constructor = "HttpClient" /\ options.requestsPerSecond # 0) =>
           /\ requests' # requests => Dispatched = {}
           /\ \A new \in Dispatched :
                  /\ requests' = requests
                  /\ Dispatched = {new}
                  /\ clients[conns'[new].client].requestTimer = "active"
                  /\ DOMAIN conns \subseteq DOMAIN conns'
                  /\ \A id \in DOMAIN conns : conns'[id] = conns[id]]_vars

\* An open-loop client has two requests in flight: its second tick
\* dispatched while its first request was still out
C12_Witness ==
    /\ phase = "started" /\ running
    /\ options.requestsPerSecond # 0
    /\ \E c \in DOMAIN clients : Cardinality(InFlight(c)) = 2

\* C13: for any interleaving the maxRequests test calls stop() at most once
\* per run: the results delivered to a run's callback are one for the
\* maxSeconds timeout if it fired, and one for maxRequests if requests has
\* reached it, however many completions follow the one that reached it.
C13_BoundaryStopsOnce ==
    (phase = "started" /\ callback) =>
        Len(results) =
            (IF maxSecondsTimer = "fired" THEN 1 ELSE 0)
            + (IF options.maxRequests # 0 /\ requests >= options.maxRequests THEN 1 ELSE 0)

\* Requests completed past maxRequests and the boundary delivered one result
C13_Witness ==
    /\ phase = "started" /\ callback
    /\ options.maxRequests # 0 /\ requests > options.maxRequests
    /\ maxSecondsTimer # "fired"
    /\ Len(results) = 1

\* C14: once the Operation has stopped, no client's requestTimer is active,
\* also when the client's staggered start fires after the stop.
C14_NoTimerAfterStop ==
    (phase = "started" /\ ~running) =>
        \A c \in DOMAIN clients : clients[c].requestTimer # "active"

\* C15: once the Operation has stopped, the showTimer is stopped and stays
\* so, and whenever a run is under way the showTimer exists, so that no
\* stop() finds it missing.
C15_ShowTimerStopped ==
    phase = "started" =>
        /\ showTimer # "none"
        /\ ~running => showTimer = "stopped"
        /\ stopOrder # <<>> => "showTimer" \in {stopOrder[k] : k \in DOMAIN stopOrder}

\* The Operation stopped, with its showTimer stopped, while requests are out
C15_Witness ==
    /\ phase = "started" /\ ~running
    /\ showTimer = "stopped"
    /\ \E id \in DOMAIN conns : conns[id].state = "sent"

\* The place of an effect in the last stop(), 0 when that stop() skipped it
Position(effect) ==
    IF \E k \in DOMAIN stopOrder : stopOrder[k] = effect
    THEN CHOOSE k \in DOMAIN stopOrder : stopOrder[k] = effect
    ELSE 0

\* C16 as stated: stop() clears running first, before it stops the showTimer
\* and before it stops any client, and calls the result callback last.
C16_RunningFirst ==
    stopOrder # <<>> =>
        /\ stopOrder[1] = "running"
        /\ Position("showTimer") # 0 => Position("running") < Position("showTimer")
        /\ Position("clients") # 0 => Position("running") < Position("clients")
        /\ callback => stopOrder[Len(stopOrder)] = "callback"

\* C16: stop() stops the showTimer first, then clears running, then stops the
\* clients, and calls the result callback, if there is one, last.
C16_ShowTimerFirst ==
    stopOrder # <<>> =>
        stopOrder = <<"showTimer", "running", "clients">>
                        \o (IF callback THEN <<"callback">> ELSE <<>>)

\* A stop() ran in a run with a result callback and delivered the results
C16_Witness ==
    /\ phase = "started" /\ ~running /\ callback
    /\ stopOrder # <<>>
    /\ Len(results) = 1

\* C17: the error codes handed to the latency tracker are the numeric status
\* of a response whose status is 300 or more and, for every transport
\* failure, on the request or on the response, the one sentinel '-1'; a
\* response with a lower status records no code.
C17_ErrorCodes ==
    /\ \A code \in BagToSet(latency.errorCodes) :
           \/ code = Str("-1")
           \/ code.kind = "number" /\ code.num >= 300
    /\ NullCode \notin BagToSet(latency.errorCodes)

\* C18: start() creates exactly concurrency clients, and in closed-loop mode
\* every client has exactly one request in flight while the Operation runs:
\* the requests in flight are concurrency many until the stop and never
\* more than that afterwards.
C18_ConcurrencyInFlight ==
    (phase = "started" /\ constructor = "HttpClient") =>
        /\ DOMAIN clients = 0 .. options.concurrency - 1
        /\ options.requestsPerSecond = 0 =>
               /\ running => \A c \in DOMAIN clients : Cardinality(InFlight(c)) = 1
               /\ running =>
                      Cardinality({id \in DOMAIN conns : conns[id].state = "sent"})
                          = options.concurrency
               /\ Cardinality({id \in DOMAIN conns : conns[id].state = "sent"})
                      <= options.concurrency

\* C19: the records the latency tracker has finalized are as many as the
\* completed counter, the records started are the finalized ones plus those
\* in flight, and results are delivered only when running is false and hold
\* no more than the completions counted.
C19_TrackerAgrees ==
    /\ latency.total = requests
    /\ latency.lastId = latency.total + Cardinality(latency.open)
    /\ results # <<>> => ~running
    /\ \A k \in DOMAIN results : results[k].total <= requests

====
